---- MODULE Spec2Model ----
(***************************************************************************)
(* A model of src/claude-api.py: the /query handler (query_collection),    *)
(* the filter it builds for the search call, and the value normalizer      *)
(* (process_properties, process_single_value).                             *)
(*                                                                         *)
(* Values are tagged records.  JSON values of the request:                 *)
(*   [t |-> "null"], [t |-> "str", v], [t |-> "num", v] (v the literal),   *)
(*   [t |-> "list", elems], [t |-> "dict", m] (m: key -> value, a key that *)
(*   is absent from the JSON object is absent from DOMAIN m).              *)
(* Values of the backend: the JSON scalars, and                            *)
(*   [t |-> "datetime", date, time, tz], [t |-> "uuid", groups],           *)
(*   [t |-> "geo", latitude, longitude], [t |-> "blist", elems],           *)
(*   [t |-> "bdict", entries] (entries: a sequence of [k, v], in the       *)
(*   insertion order a Python dict keeps).                                 *)
(* Floats are counted in hundredths: [t |-> "float", c].                   *)
(***************************************************************************)
EXTENDS Integers, Sequences, FiniteSets, TLC

\* ---------------------------------------------------------------- bounds
MaxConds == 2
MaxRows == 2
MaxItems == 2

\* 1.0 of line 251, in hundredths
FloatOne == 100

VARIABLES
    pc,               \* where the handler stands: idle, start, validated, searching, waiting, done
    data,             \* request.json
    collection_name,  \* locals of query_collection
    query_text,
    top_k,
    exclude_fields,
    filters_input,
    calls,            \* the backend calls made so far, in order
    pending,          \* the arguments of the near_text call in flight
    objects,          \* response.objects as the backend returned them
    backend_raised,   \* the call of the backend that raised, and its message
    response,         \* what the handler returned: [status, body]
    nv_pc,            \* the normalizer under SpecNormalize: which step was applied
    nv_fn,            \* which of the two normalizers is applied
    nv_in,            \* the value given to it
    nv_once,          \* the normalizer applied once
    nv_twice          \* the normalizer applied to its own output

hvars == <<pc, data, collection_name, query_text, top_k, exclude_fields,
           filters_input, calls, pending, objects, backend_raised, response>>
nvars == <<nv_pc, nv_fn, nv_in, nv_once, nv_twice>>
vars == <<hvars, nvars>>

\* ------------------------------------------------------------ JSON values
JNull == [t |-> "null"]
JStr(s) == [t |-> "str", v |-> s]
JNum(s) == [t |-> "num", v |-> s]
JList(q) == [t |-> "list", elems |-> q]
JDict(f) == [t |-> "dict", m |-> f]
Float(c) == [t |-> "float", c |-> c]
Unset == [t |-> "unset"]
NoCall == [t |-> "nocall"]
NoResponse == [t |-> "noresponse"]
NoRaise == [op |-> "none"]

\* the sequences over S of length at most n
SeqsUpTo(S, n) == UNION {[1..k -> S] : k \in 0..n}

\* the elements of a sequence
Range(q) == {q[i] : i \in 1..Len(q)}

\* a JSON object of the given members, in a fixed shape: a member whose
\* value is the marker "omit" is left out of the object
Omit == [t |-> "omit"]
Obj(f) == JDict([k \in {x \in DOMAIN f : f[x] # Omit} |-> f[k]])

\* ------------------------------------------------- Python on JSON values
\* d.get(k): None when the key is absent
Get(d, k) == IF k \in DOMAIN d.m THEN d.m[k] ELSE JNull

\* d.get(k, default)
GetDefault(d, k, default) == IF k \in DOMAIN d.m THEN d.m[k] ELSE default

\* bool(x)
Truthy(x) ==
    CASE x.t = "null" -> FALSE
      [] x.t = "str" -> x.v # ""
      [] x.t = "num" -> x.v # "0"
      [] x.t = "list" -> x.elems # <<>>
      [] x.t = "dict" -> DOMAIN x.m # {}
      [] OTHER -> TRUE

\* type(x).__name__
TypeName(x) ==
    CASE x.t = "null" -> "NoneType"
      [] x.t = "str" -> "str"
      [] x.t = "num" -> "int"
      [] x.t = "list" -> "list"
      [] x.t = "dict" -> "dict"
      [] OTHER -> x.t

\* str.lower() on the strings the requests use
Lower(s) ==
    CASE s = "GTE" -> "gte"
      [] s = "Like" -> "like"
      [] s = "And" -> "and"
      [] s = "Or" -> "or"
      [] s = "OR" -> "or"
      [] OTHER -> s

\* the AttributeError of calling a method the value does not have
NoAttribute(x, attr) ==
    <<"'", TypeName(x), "' object has no attribute '", attr, "'">>

\* the literals int() reads
IntLiterals == ("5" :> 5) @@ ("10" :> 10)

\* int(x) succeeds
CanInt(x) == x.t \in {"num", "str"} /\ x.v \in DOMAIN IntLiterals

\* int(x)
IntOf(x) == IntLiterals[x.v]

\* the message of the exception int(x) raises
IntError(x) ==
    IF x.t = "str"
    THEN <<"invalid literal for int() with base 10: '", x.v, "'">>
    ELSE <<"int() argument must be a string, a bytes-like object or a real number, not '",
           TypeName(x), "'">>

\* jsonify({"error": e}), status
ErrorResponse(status, e) ==
    [status |-> status, body |-> [t |-> "error", error |-> e]]

\* jsonify({"error": e, "details": str(exc)}), status
ErrorDetailsResponse(status, e, details) ==
    [status |-> status, body |-> [t |-> "error", error |-> e, details |-> details]]

\* the handler's catch-all, lines 265-267
InternalError(message) ==
    ErrorDetailsResponse(500, "Internal server error", message)

\* ------------------------------------------------------- the filter, 166-221
\* by_property(field).<method>(value), lines 193-210
Method(op) ==
    CASE op = "eq" -> "equal"
      [] op = "neq" -> "not_equal"
      [] op = "gt" -> "greater_than"
      [] op = "gte" -> "greater_or_equal"
      [] op = "lt" -> "less_than"
      [] op = "lte" -> "less_or_equal"
      [] op = "like" -> "like"

Comparison(field, op, value) ==
    [property |-> field, method |-> Method(op), value |-> value]

\* the keys of supported_ops, lines 173-181
supported_ops == {"eq", "neq", "gt", "gte", "lt", "lte", "like"}

\* line 188 without its test of the value
SkipConditionIgnoringValue(field, op, value) ==
    ~Truthy(field) \/ op \notin supported_ops

\* line 188: the condition is skipped
SkipCondition(field, op, value) ==
    ~Truthy(field) \/ op \notin supported_ops \/ value = JNull

\* lines 208-212: a like on a value that is no string appends nothing
LikeSkipped(op, value) == op = "like" /\ value.t # "str"

NoFilter == [t |-> "none"]

\* lines 215-219 with the operator compared as the request spells it
CombineCaseSensitive(operator_type, filter_conditions) ==
    IF filter_conditions = <<>>
    THEN NoFilter
    ELSE IF operator_type = "Or"
         THEN [t |-> "any_of", filters |-> filter_conditions]
         ELSE [t |-> "all_of", filters |-> filter_conditions]

\* lines 215-219
Combine(operator_type, filter_conditions) ==
    IF filter_conditions = <<>>
    THEN NoFilter
    ELSE IF operator_type = "or"
         THEN [t |-> "any_of", filters |-> filter_conditions]
         ELSE [t |-> "all_of", filters |-> filter_conditions]

Filtered(f) == [raised |-> FALSE, filter |-> f]
Raised(message) == [raised |-> TRUE, message |-> message]

\* the loop of lines 183-212, from condition i on, filter_conditions so far
RECURSIVE CompileConditions(_, _, _)
CompileConditions(conds, i, filter_conditions) ==
    IF i > Len(conds)
    THEN [raised |-> FALSE, conditions |-> filter_conditions]
    ELSE LET cond == conds[i] IN
         IF cond.t # "dict"
         THEN Raised(NoAttribute(cond, "get"))
         ELSE LET field == Get(cond, "field")
                  rawop == GetDefault(cond, "operator", JStr(""))
                  value == Get(cond, "value")
              IN  IF rawop.t # "str"
                  THEN Raised(NoAttribute(rawop, "lower"))
                  ELSE LET op == Lower(rawop.v) IN
                       IF SkipCondition(field, op, value) \/ LikeSkipped(op, value)
                       THEN CompileConditions(conds, i + 1, filter_conditions)
                       ELSE CompileConditions(conds, i + 1,
                                Append(filter_conditions, Comparison(field, op, value)))

\* lines 166-221: the filter built from filters_input, or the exception raised
BuildFilter(fi) ==
    IF ~(Truthy(fi) /\ fi.t = "dict")
    THEN Filtered(NoFilter)
    ELSE LET conditions_input == GetDefault(fi, "conditions", JList(<<>>))
             rawop == GetDefault(fi, "operator", JStr("And"))
         IN  IF rawop.t # "str"
             THEN Raised(NoAttribute(rawop, "lower"))
             ELSE IF Truthy(conditions_input) /\ conditions_input.t = "list"
                  THEN LET r == CompileConditions(conditions_input.elems, 1, <<>>) IN
                       IF r.raised
                       THEN r
                       ELSE Filtered(Combine(Lower(rawop.v), r.conditions))
                  ELSE Filtered(NoFilter)

\* ------------------------------------------------ the normalizer, 46-82
Datetime(date, time, tz) == [t |-> "datetime", date |-> date, time |-> time, tz |-> tz]
Uuid(groups) == [t |-> "uuid", groups |-> groups]
Geo(lat, lon) == [t |-> "geo", latitude |-> lat, longitude |-> lon]
BList(q) == [t |-> "blist", elems |-> q]
BDict(q) == [t |-> "bdict", entries |-> q]
Entry(k, v) == [k |-> k, v |-> v]

\* datetime.isoformat(): date, "T", time, and the offset of an aware value
isoformat(d) == d.date \o "T" \o d.time \o d.tz

\* str(uuid.UUID): the five groups of hex digits, hyphenated
UuidStr(u) ==
    u.groups[1] \o "-" \o u.groups[2] \o "-" \o u.groups[3] \o "-"
        \o u.groups[4] \o "-" \o u.groups[5]

\* lines 58 and 77: the dict built from the two attributes
GeoDict(g) ==
    BDict(<<Entry("latitude", g.latitude), Entry("longitude", g.longitude)>>)

\* lines 70-82 with a scalar string encoded once more on its way out
RECURSIVE process_single_value_encoding(_)
process_single_value_encoding(value) ==
    CASE value.t = "datetime" -> JStr(isoformat(value))
      [] value.t = "uuid" -> JStr(UuidStr(value))
      [] value.t = "geo" -> GeoDict(value)
      [] value.t = "blist" ->
            BList([i \in 1..Len(value.elems) |->
                      process_single_value_encoding(value.elems[i])])
      [] value.t = "bdict" ->
            BDict([i \in 1..Len(value.entries) |->
                      Entry(value.entries[i].k,
                            process_single_value_encoding(value.entries[i].v))])
      [] value.t = "str" -> JStr("\"" \o value.v \o "\"")
      [] OTHER -> value

\* lines 70-82
RECURSIVE process_single_value(_)
process_single_value(value) ==
    CASE value.t = "datetime" -> JStr(isoformat(value))
      [] value.t = "uuid" -> JStr(UuidStr(value))
      [] value.t = "geo" -> GeoDict(value)
      [] value.t = "blist" ->
            BList([i \in 1..Len(value.elems) |-> process_single_value(value.elems[i])])
      [] value.t = "bdict" ->
            BDict([i \in 1..Len(value.entries) |->
                      Entry(value.entries[i].k, process_single_value(value.entries[i].v))])
      [] OTHER -> value

\* lines 51-67: the value stored under one key of the properties
ProcessedProperty(value) ==
    CASE value.t = "datetime" -> JStr(isoformat(value))
      [] value.t = "uuid" -> JStr(UuidStr(value))
      [] value.t = "geo" -> GeoDict(value)
      [] value.t = "blist" ->
            BList([i \in 1..Len(value.elems) |-> process_single_value(value.elems[i])])
      [] value.t = "bdict" ->
            BDict([i \in 1..Len(value.entries) |->
                      Entry(value.entries[i].k, process_single_value(value.entries[i].v))])
      [] OTHER -> value

\* lines 46-68; properties is None or a dict
process_properties(properties) ==
    IF properties.t # "bdict" \/ properties.entries = <<>>
    THEN BDict(<<>>)
    ELSE BDict([i \in 1..Len(properties.entries) |->
                   Entry(properties.entries[i].k,
                         ProcessedProperty(properties.entries[i].v))])

\* ------------------------------------------------- the results, 235-258
\* keep the entries of a sequence whose key is not among the excluded values
RECURSIVE WithoutKeys(_, _)
WithoutKeys(entries, excluded) ==
    IF entries = <<>>
    THEN <<>>
    ELSE IF JStr(Head(entries).k) \in excluded
         THEN WithoutKeys(Tail(entries), excluded)
         ELSE <<Head(entries)>> \o WithoutKeys(Tail(entries), excluded)

\* the entries without the excluded keys, at every depth
RECURSIVE WithoutKeysDeep(_, _)
WithoutKeysDeep(entries, excluded) ==
    IF entries = <<>>
    THEN <<>>
    ELSE IF JStr(Head(entries).k) \in excluded
         THEN WithoutKeysDeep(Tail(entries), excluded)
         ELSE <<Entry(Head(entries).k,
                      IF Head(entries).v.t = "bdict"
                      THEN BDict(WithoutKeysDeep(Head(entries).v.entries, excluded))
                      ELSE Head(entries).v)>>
              \o WithoutKeysDeep(Tail(entries), excluded)

\* lines 243-246 with the exclusion reaching into nested dicts
FilterExcludedDeep(properties, excl) ==
    IF Truthy(excl)
    THEN BDict(WithoutKeysDeep(properties.entries, Range(excl.elems)))
    ELSE properties

\* lines 243-246
FilterExcluded(properties, excl) ==
    IF Truthy(excl)
    THEN BDict(WithoutKeys(properties.entries, Range(excl.elems)))
    ELSE properties

NoMetadata == [t |-> "nometadata"]
Metadata(distance) == [t |-> "metadata", distance |-> distance]

\* line 248
Distance(metadata) ==
    IF metadata # NoMetadata /\ metadata.distance # JNull
    THEN metadata.distance
    ELSE JNull

\* line 251 with the distance tested for truth, not for None
ScoreOfTruthyDistance(distance) ==
    IF distance # JNull /\ distance.c # 0
    THEN Float(FloatOne - distance.c)
    ELSE Float(0)

\* line 251
Score(distance) ==
    IF distance # JNull THEN Float(FloatOne - distance.c) ELSE Float(0)

\* lines 240-258: the result appended for one object
ResultOf(obj, excl) ==
    [properties |-> FilterExcluded(process_properties(obj.properties), excl),
     score |-> Score(Distance(obj.metadata)),
     distance |-> Distance(obj.metadata),
     uuid |-> JStr(UuidStr(obj.uuid))]

\* lines 236-258 with each result put in front of the earlier ones
RECURSIVE ProcessResultsPrepending(_, _)
ProcessResultsPrepending(objs, excl) ==
    IF objs = <<>>
    THEN <<>>
    ELSE ProcessResultsPrepending(Tail(objs), excl) \o <<ResultOf(Head(objs), excl)>>

\* lines 236-258: results after the loop over response.objects
RECURSIVE ProcessResults(_, _)
ProcessResults(objs, excl) ==
    IF objs = <<>>
    THEN <<>>
    ELSE <<ResultOf(Head(objs), excl)>> \o ProcessResults(Tail(objs), excl)

\* ------------------------------------------------------------ the inputs
\* the member "filters" of the body is read once, at line 150: the body
\* holds this marker for it and its value is drawn where it is read
Deferred == [t |-> "deferred"]

ExcludePool ==
    {Omit, JStr("title"), JList(<<JStr("title")>>), JList(<<JStr("latitude")>>),
     JList(<<JStr("title"), JNum("5")>>)}

\* request bodies: null, a JSON array, and objects with each member in each shape
Bodies ==
    {JNull, JList(<<JNum("1")>>)} \cup
    {Obj([collection_name |-> n, query |-> q, top_k |-> k,
          exclude_fields |-> e, filters |-> f]) :
        n \in {Omit, JStr(""), JStr("Docs")},
        q \in {Omit, JStr(""), JStr("hello")},
        k \in {Omit, JNum("10"), JStr("abc")},
        e \in ExcludePool,
        f \in {Omit, Deferred}}

Cond(field, op, value) == Obj([field |-> field, operator |-> op, value |-> value])

\* elements of filters.conditions: every operator on a number (a like on a
\* number included), a like and an eq on a string, each member missing or
\* unusable in turn, and an element that is no object
CondPool ==
    {Cond(JStr("year"), JStr(o), JNum("2020")) : o \in supported_ops \cup {"GTE"}} \cup
    {Cond(JStr("title"), JStr(o), JStr("a%")) : o \in {"Like", "eq"}} \cup
    {Cond(f, JStr("eq"), JNum("2020")) : f \in {Omit, JStr("")}} \cup
    {Cond(JStr("year"), o, JNum("2020")) : o \in {Omit, JStr("bogus"), JNum("5")}} \cup
    {Cond(JStr("year"), JStr("eq"), v) : v \in {Omit, JNull}} \cup
    {JStr("x")}

FiltersPool ==
    {JNull, JStr("x")} \cup
    {Obj([operator |-> o, conditions |-> c]) :
        o \in {Omit, JStr("And"), JStr("Or"), JStr("OR"), JNum("5")},
        c \in {Omit, JStr("x")} \cup {JList(q) : q \in SeqsUpTo(CondPool, MaxConds)}}

\* messages of the exceptions client.collections.get raises
ResolveErrors ==
    {<<"Not found: Collection", " in the schema">>,
     <<"The class ", "doesn't exist">>,
     <<"connection refused">>}

\* messages of the exceptions near_text raises
SearchErrors == {<<"connection refused">>}

Datetime1 == Datetime("2024-05-01", "12:30:00", "")
Datetime2 == Datetime("2024-05-01", "12:30:00", "+00:00")
Uuid1 == Uuid(<<"12345678", "1234", "5678", "1234", "567812345678">>)
Uuid2 == Uuid(<<"87654321", "4321", "8765", "4321", "876543218765">>)
Geo1 == Geo(JNum("52.5"), JNum("13.4"))

Properties1 ==
    BDict(<<Entry("title", JStr("Doc A")), Entry("created", Datetime1),
            Entry("location", Geo1)>>)
Properties2 ==
    BDict(<<Entry("owner", Uuid2),
            Entry("meta", BDict(<<Entry("title", JStr("inner")),
                                  Entry("latitude", JNum("1.5"))>>)),
            Entry("tags", BList(<<JStr("a"), Datetime2>>)),
            Entry("title", JStr("Doc B"))>>)

\* the objects of a search: the properties are None or a dict, the metadata
\* is None or carries a distance that may be None
ObjectPool ==
    {[properties |-> p[1], metadata |-> md, uuid |-> p[2]] :
        p \in {<<JNull, Uuid1>>, <<Properties1, Uuid1>>, <<Properties2, Uuid2>>},
        md \in {NoMetadata, Metadata(JNull), Metadata(Float(0)), Metadata(Float(40))}}

\* ---------------------------------------------------------- the handler
\* line 142 with "and" for "or"
MissingBoth(cn, q) == ~Truthy(cn) /\ ~Truthy(q)

\* line 142
MissingRequired(cn, q) == ~Truthy(cn) \/ ~Truthy(q)

\* line 147
ExcludeRejected(ex) == ex.t # "list"

\* line 157 with the first phrase alone
IsNotFoundFirstPhrase(message) == "Not found: Collection" \in Range(message)

\* line 157
IsNotFound(message) ==
    "Not found: Collection" \in Range(message) \/ "doesn't exist" \in Range(message)

\* lines 155-162
ResolveFailure(message, name) ==
    IF IsNotFound(message)
    THEN ErrorResponse(404, "Collection '" \o name.v \o "' not found")
    ELSE ErrorDetailsResponse(500, "Failed to access collection", message)

\* the handler returns r: its frame is gone
Return(r) ==
    /\ pc' = "done"
    /\ response' = r
    /\ collection_name' = Unset
    /\ query_text' = Unset
    /\ top_k' = Unset
    /\ exclude_fields' = Unset
    /\ filters_input' = Unset
    /\ pending' = NoCall

\* a POST /query arrives
Receive ==
    /\ pc = "idle"
    /\ data' \in Bodies
    /\ pc' = "start"
    /\ UNCHANGED <<collection_name, query_text, top_k, exclude_fields,
                   filters_input, calls, pending, objects, backend_raised,
                   response, nvars>>

\* lines 135-150
Validate ==
    /\ pc = "start"
    /\ UNCHANGED <<data, calls, objects, backend_raised, nvars>>
    /\ IF ~Truthy(data)
       THEN Return(ErrorResponse(400, "Request body must be JSON"))
       ELSE IF data.t # "dict"
       THEN Return(InternalError(NoAttribute(data, "get")))
       ELSE IF MissingRequired(Get(data, "collection_name"), Get(data, "query"))
       THEN Return(ErrorResponse(400,
                "Missing required fields: 'collection_name' and 'query'"))
       ELSE IF ~CanInt(GetDefault(data, "top_k", JNum("5")))
       THEN Return(InternalError(IntError(GetDefault(data, "top_k", JNum("5")))))
       ELSE IF ExcludeRejected(GetDefault(data, "exclude_fields", JList(<<>>)))
       THEN Return(ErrorResponse(400, "'exclude_fields' must be a list of strings"))
       ELSE /\ collection_name' = Get(data, "collection_name")
            /\ query_text' = Get(data, "query")
            /\ top_k' = IntOf(GetDefault(data, "top_k", JNum("5")))
            /\ exclude_fields' = GetDefault(data, "exclude_fields", JList(<<>>))
            /\ filters_input' \in
                  IF "filters" \in DOMAIN data.m THEN FiltersPool ELSE {JNull}
            /\ pc' = "validated"
            /\ UNCHANGED <<pending, response>>

\* lines 153-162: client.collections.get raises
GetCollectionRaises ==
    /\ pc = "validated"
    /\ \E e \in ResolveErrors :
          /\ calls' = Append(calls, "collections.get")
          /\ backend_raised' = [op |-> "collections.get", message |-> e]
          /\ Return(ResolveFailure(e, collection_name))
    /\ UNCHANGED <<data, objects, nvars>>

\* lines 153-233: the collection is there; the filter is built and the
\* search is called, unless building the filter raises
BuildAndSearch ==
    /\ pc = "validated"
    /\ LET r == BuildFilter(filters_input) IN
       IF r.raised
       THEN /\ calls' = Append(calls, "collections.get")
            /\ Return(InternalError(r.message))
       ELSE /\ calls' = calls \o <<"collections.get", "query.near_text">>
            /\ pending' = [query |-> query_text, limit |-> top_k,
                           filters |-> r.filter]
            /\ pc' = "searching"
            /\ UNCHANGED <<collection_name, query_text, top_k, exclude_fields,
                           filters_input, response>>
    /\ UNCHANGED <<data, objects, backend_raised, nvars>>

\* lines 225-233: the backend takes the call.  filters_input is not read
\* after line 221 and the filter has been handed over: both are forgotten
SearchAccepted ==
    /\ pc = "searching"
    /\ pc' = "waiting"
    /\ pending' = NoCall
    /\ filters_input' = Unset
    /\ UNCHANGED <<data, collection_name, query_text, top_k, exclude_fields,
                   calls, objects, backend_raised, response, nvars>>

\* lines 235-263: near_text returns and the results are answered
SearchReturns ==
    /\ pc = "waiting"
    /\ \E objs \in SeqsUpTo(ObjectPool, MaxRows) :
          /\ objects' = objs
          /\ Return([status |-> 200,
                     body |-> [t |-> "results",
                               results |-> ProcessResults(objs, exclude_fields)]])
    /\ UNCHANGED <<data, calls, backend_raised, nvars>>

\* lines 265-267: near_text raises
SearchRaises ==
    /\ pc = "waiting"
    /\ \E e \in SearchErrors :
          /\ backend_raised' = [op |-> "query.near_text", message |-> e]
          /\ Return(InternalError(e))
    /\ UNCHANGED <<data, calls, objects, nvars>>

Init ==
    /\ pc = "idle"
    /\ data = Unset
    /\ collection_name = Unset
    /\ query_text = Unset
    /\ top_k = Unset
    /\ exclude_fields = Unset
    /\ filters_input = Unset
    /\ calls = <<>>
    /\ pending = NoCall
    /\ objects = <<>>
    /\ backend_raised = NoRaise
    /\ response = NoResponse
    /\ nv_pc = "off"
    /\ nv_fn = "off"
    /\ nv_in = Unset
    /\ nv_once = Unset
    /\ nv_twice = Unset

Next ==
    \/ Receive
    \/ Validate
    \/ GetCollectionRaises
    \/ BuildAndSearch
    \/ SearchAccepted
    \/ SearchReturns
    \/ SearchRaises

Spec == Init /\ [][Next]_vars

\* ------------------------------------------- the normalizer on its own
NormKeys == {"latitude", "longitude", "title"}

\* sequences of distinct keys
KeySeqs ==
    {ks \in SeqsUpTo(NormKeys, MaxItems) :
        \A i, j \in 1..Len(ks) : i # j => ks[i] # ks[j]}

ListsOver(V) == {BList(q) : q \in SeqsUpTo(V, MaxItems)}

DictsOver(V) ==
    {BDict([i \in 1..Len(p[1]) |-> Entry(p[1][i], p[2][i])]) :
        p \in {x \in KeySeqs \X SeqsUpTo(V, MaxItems) : Len(x[1]) = Len(x[2])}}

Leaves == {JStr("a"), JNum("7"), JNull, Datetime1, Datetime2, Uuid1, Geo1}

Nested ==
    {Datetime2, Geo1, BList(<<Uuid1, Datetime1>>),
     BDict(<<Entry("latitude", Geo1)>>), BList(<<BList(<<Datetime1>>)>>)}

\* backend values: scalars, timestamps, identifiers, geo-coordinates, and
\* lists and dicts of them, nested up to three deep
NormInputs ==
    Leaves \cup ListsOver(Leaves) \cup DictsOver(Leaves)
        \cup ListsOver(Nested) \cup DictsOver(Nested)

\* what process_properties is given: None or a dict
PropertiesInputs ==
    {JNull} \cup DictsOver(Leaves) \cup DictsOver(Nested)

InitNormalize ==
    /\ pc = "off"
    /\ data = Unset
    /\ collection_name = Unset
    /\ query_text = Unset
    /\ top_k = Unset
    /\ exclude_fields = Unset
    /\ filters_input = Unset
    /\ calls = <<>>
    /\ pending = NoCall
    /\ objects = <<>>
    /\ backend_raised = NoRaise
    /\ response = NoResponse
    /\ nv_pc = "input"
    /\ nv_fn \in {"process_single_value", "process_properties"}
    /\ nv_in \in IF nv_fn = "process_single_value" THEN NormInputs ELSE PropertiesInputs
    /\ nv_once = Unset
    /\ nv_twice = Unset

\* process_single_value(x)
SingleOnce ==
    /\ nv_pc = "input"
    /\ nv_fn = "process_single_value"
    /\ nv_once' = process_single_value(nv_in)
    /\ nv_pc' = "once"
    /\ UNCHANGED <<hvars, nv_fn, nv_in, nv_twice>>

\* process_single_value(process_single_value(x))
SingleTwice ==
    /\ nv_pc = "once"
    /\ nv_fn = "process_single_value"
    /\ nv_twice' = process_single_value(nv_once)
    /\ nv_pc' = "twice"
    /\ UNCHANGED <<hvars, nv_fn, nv_in, nv_once>>

\* process_properties(x)
PropertiesOnce ==
    /\ nv_pc = "input"
    /\ nv_fn = "process_properties"
    /\ nv_once' = process_properties(nv_in)
    /\ nv_pc' = "once"
    /\ UNCHANGED <<hvars, nv_fn, nv_in, nv_twice>>

\* process_properties(process_properties(x))
PropertiesTwice ==
    /\ nv_pc = "once"
    /\ nv_fn = "process_properties"
    /\ nv_twice' = process_properties(nv_once)
    /\ nv_pc' = "twice"
    /\ UNCHANGED <<hvars, nv_fn, nv_in, nv_once>>

NextNormalize ==
    \/ SingleOnce
    \/ SingleTwice
    \/ PropertiesOnce
    \/ PropertiesTwice

SpecNormalize == InitNormalize /\ [][NextNormalize]_vars

\* ------------------------------------------------------------ the claims
\* The vocabulary of the statements below is the specification's, written
\* on the request and on what the backend saw and returned.

\* the operator names of the specification, in the spellings the requests use
CanonicalOperator ==
    [o \in {"eq", "neq", "gt", "gte", "lt", "lte", "like"} |-> o]
        @@ ("GTE" :> "gte") @@ ("Like" :> "like")

\* the specification's operator table
Semantic ==
    ("eq" :> "equal") @@ ("neq" :> "not_equal") @@ ("gt" :> "greater_than")
        @@ ("gte" :> "greater_or_equal") @@ ("lt" :> "less_than")
        @@ ("lte" :> "less_or_equal") @@ ("like" :> "like")

\* a valid condition: a non-empty field, a supported operator in any case,
\* a value that is present and not null, and a string value under like
ValidCondition(c) ==
    /\ c.t = "dict"
    /\ "field" \in DOMAIN c.m
    /\ c.m["field"] \notin {JNull, JStr("")}
    /\ "operator" \in DOMAIN c.m
    /\ c.m["operator"].t = "str"
    /\ c.m["operator"].v \in DOMAIN CanonicalOperator
    /\ "value" \in DOMAIN c.m
    /\ c.m["value"] # JNull
    /\ (CanonicalOperator[c.m["operator"].v] = "like" => c.m["value"].t = "str")

\* the per-field comparison of a valid condition
PerFieldComparison(c) ==
    [property |-> c.m["field"],
     method |-> Semantic[CanonicalOperator[c.m["operator"].v]],
     value |-> c.m["value"]]

\* the filters object carries a list of conditions
HasConditions(fi) ==
    fi.t = "dict" /\ "conditions" \in DOMAIN fi.m /\ fi.m["conditions"].t = "list"

ConditionsOf(fi) == fi.m["conditions"].elems

\* filters.operator is omitted or is a string
OperatorIsText(fi) == "operator" \in DOMAIN fi.m => fi.m["operator"].t = "str"

\* the comparisons of the valid conditions, in the order of the conditions
ExpectedComparisons(fi) ==
    LET valid == SelectSeq(ConditionsOf(fi), ValidCondition)
    IN  [i \in 1..Len(valid) |-> PerFieldComparison(valid[i])]

\* the comparisons a predicate groups
Contributed(f) == IF f = NoFilter THEN <<>> ELSE f.filters

\* the search was called
SearchCalled == "query.near_text" \in Range(calls)

\* the handler answered 200 with results
Answered200 == pc = "done" /\ response.status = 200

\* C1: whenever the search is called for a request whose filters hold at
\* least one valid condition, the predicate it is given is one flat group
\* over the comparisons of the valid conditions, in their order: any_of when
\* filters.operator is "or" in any letter case, all_of when it is omitted or
\* is "And".
C1_PredicateIsFlatGroup ==
    (/\ pc = "searching"
     /\ HasConditions(filters_input)
     /\ \E i \in 1..Len(ConditionsOf(filters_input)) :
            ValidCondition(ConditionsOf(filters_input)[i]))
    => /\ ("operator" \notin DOMAIN filters_input.m
              \/ filters_input.m["operator"] = JStr("And"))
          => pending.filters =
                [t |-> "all_of", filters |-> ExpectedComparisons(filters_input)]
       /\ ("operator" \in DOMAIN filters_input.m
              /\ filters_input.m["operator"] \in
                    {JStr("or"), JStr("Or"), JStr("oR"), JStr("OR")})
          => pending.filters =
                [t |-> "any_of", filters |-> ExpectedComparisons(filters_input)]

\* a search called with a disjunction of two different comparisons
C1_Witness ==
    /\ pc = "searching"
    /\ HasConditions(filters_input)
    /\ "operator" \in DOMAIN filters_input.m
    /\ filters_input.m["operator"] = JStr("OR")
    /\ pending.filters # NoFilter
    /\ pending.filters.t = "any_of"
    /\ Len(pending.filters.filters) = 2
    /\ pending.filters.filters[1] # pending.filters.filters[2]

\* the conditions of filters are all objects whose operator, when given, is
\* a string, and filters.operator, when given, is a string
ConditionObjectsOnly(fi) ==
    /\ HasConditions(fi)
    /\ OperatorIsText(fi)
    /\ \A i \in 1..Len(ConditionsOf(fi)) :
          /\ ConditionsOf(fi)[i].t = "dict"
          /\ ("operator" \in DOMAIN ConditionsOf(fi)[i].m
                 => ConditionsOf(fi)[i].m["operator"].t = "str")

\* C2: once the collection is resolved, a list of condition objects always
\* leads to the search call, without an error response; the predicate
\* groups one comparison per valid condition and none for a condition with
\* an unsupported operator, a missing or empty field, a null or absent
\* value, or a like on a value that is no string; with no valid condition
\* the search is called with no filter.
C2_InvalidConditionsDropped ==
    [][(BuildAndSearch /\ ConditionObjectsOnly(filters_input))
        => /\ pc' = "searching"
           /\ response' = NoResponse
           /\ calls'[Len(calls')] = "query.near_text"
           /\ LET conds == ConditionsOf(filters_input)
                  got == Contributed(pending'.filters)
              IN  /\ Len(got) = Len(SelectSeq(conds, ValidCondition))
                  /\ \A i \in 1..Len(got) :
                        \E j \in 1..Len(conds) :
                            ValidCondition(conds[j])
                                /\ got[i] = PerFieldComparison(conds[j])
                  /\ \A j \in 1..Len(conds) :
                        ValidCondition(conds[j])
                            => PerFieldComparison(conds[j]) \in Range(got)
                  /\ (\A j \in 1..Len(conds) : ~ValidCondition(conds[j]))
                        => pending'.filters = NoFilter]_vars

\* a search called after an invalid condition was dropped and a valid one kept
C2_Witness ==
    /\ pc = "searching"
    /\ ConditionObjectsOnly(filters_input)
    /\ Len(ConditionsOf(filters_input)) = 2
    /\ ~ValidCondition(ConditionsOf(filters_input)[1])
    /\ ValidCondition(ConditionsOf(filters_input)[2])
    /\ Len(Contributed(pending.filters)) = 1

\* C3: once the collection is resolved, whatever the shape of the elements
\* of filters.conditions, the handler goes on to the search call: no element
\* ends the request in an error response.
C3_MalformedElementNeverFails ==
    [][(BuildAndSearch /\ HasConditions(filters_input) /\ OperatorIsText(filters_input))
        => pc' = "searching"]_vars

\* the member is missing, null or empty
Lacks(d, k) == k \notin DOMAIN d.m \/ d.m[k] \in {JNull, JStr("")}

\* the request lacks collection_name or query
LacksRequired(d) ==
    d = JNull \/ (d.t = "dict" /\ (Lacks(d, "collection_name") \/ Lacks(d, "query")))

BadExcludeFields(d) ==
    /\ d.t = "dict"
    /\ "exclude_fields" \in DOMAIN d.m
    /\ \/ d.m["exclude_fields"].t # "list"
       \/ \E i \in 1..Len(d.m["exclude_fields"].elems) :
             d.m["exclude_fields"].elems[i].t # "str"

\* C5: a request that is valid but for an exclude_fields that is no list of
\* strings ends in 400 and no search is executed (the backend resolving the
\* collection, and no filters given).
C5_BadExcludeFieldsRejected ==
    (/\ BadExcludeFields(data)
     /\ ~LacksRequired(data)
     /\ "top_k" \notin DOMAIN data.m
     /\ "filters" \notin DOMAIN data.m
     /\ backend_raised = NoRaise)
    => /\ ~SearchCalled
       /\ pc = "done" => response.status = 400

\* the resolution of the collection raised
ResolutionRaised == pc = "done" /\ backend_raised.op = "collections.get"

\* the backend reports that the collection is not found
ReportsNotFound(message) ==
    \E i \in 1..Len(message) : message[i] \in {"Not found: Collection", "doesn't exist"}

\* C6: when the resolution reports not found the answer is 404 with an
\* error naming the collection; when it fails otherwise the answer is 500
\* with the message in details; the search is called in neither case.
C6_ResolutionFailures ==
    ResolutionRaised
    => /\ ~SearchCalled
       /\ pending = NoCall
       /\ IF ReportsNotFound(backend_raised.message)
          THEN /\ response.status = 404
               /\ response.body.error =
                     "Collection '" \o data.m["collection_name"].v \o "' not found"
          ELSE /\ response.status = 500
               /\ response.body.details = backend_raised.message

\* a resolution that reported not found by the second phrase, answered 404
C6_Witness ==
    /\ ResolutionRaised
    /\ "doesn't exist" \in Range(backend_raised.message)
    /\ response.status = 404

\* the distance metadata of a row, null when the metadata or the distance is absent
RowDistance(obj) ==
    IF obj.metadata = NoMetadata THEN JNull ELSE obj.metadata.distance

\* C7: the distance of each result is the distance metadata of its row,
\* and its score is 1 - distance, or 0.0 when the distance is null.
C7_ScoreAndDistance ==
    Answered200
    => \A i \in 1..Len(objects) :
          /\ i <= Len(response.body.results)
          /\ response.body.results[i].distance = RowDistance(objects[i])
          /\ IF RowDistance(objects[i]) = JNull
             THEN response.body.results[i].score = Float(0)
             ELSE response.body.results[i].score.c + RowDistance(objects[i]).c = FloatOne

\* two rows answered, one at distance 0.0 scored 1.0, one without metadata scored 0.0
C7_Witness ==
    /\ Answered200
    /\ Len(objects) = 2
    /\ objects[1].metadata = Metadata(Float(0))
    /\ objects[2].metadata = NoMetadata
    /\ response.body.results[1].score = Float(FloatOne)
    /\ response.body.results[2].score = Float(0)
    /\ response.body.results[2].distance = JNull

\* the values exclude_fields names
NamedExcluded ==
    IF "exclude_fields" \in DOMAIN data.m
    THEN Range(data.m["exclude_fields"].elems)
    ELSE {}

\* C8: the properties of each result are the normalized properties of its
\* row without the top-level keys exclude_fields names: every other
\* top-level key is there with its normalized value whole (keys nested in
\* it included), and no named key is.
C8_ExcludeTopLevelOnly ==
    Answered200
    => \A i \in 1..Len(objects) :
          /\ i <= Len(response.body.results)
          /\ LET norm == process_properties(objects[i].properties).entries
                 got == response.body.results[i].properties.entries
             IN  /\ \A e \in Range(norm) : JStr(e.k) \notin NamedExcluded => e \in Range(got)
                 /\ \A e \in Range(got) : JStr(e.k) \notin NamedExcluded /\ e \in Range(norm)
                 /\ Len(got) =
                       Cardinality({j \in 1..Len(norm) : JStr(norm[j].k) \notin NamedExcluded})

\* title excluded from a row that holds title at the top level and inside meta
C8_Witness ==
    /\ Answered200
    /\ JStr("title") \in NamedExcluded
    /\ Len(objects) >= 1
    /\ objects[1].properties = Properties2
    /\ Len(response.body.results[1].properties.entries) = 3
    /\ \E e \in Range(response.body.results[1].properties.entries) :
          e.k = "meta" /\ Entry("title", JStr("inner")) \in Range(e.v.entries)

\* C9: the normalizer applied to its own output returns that output, for
\* process_single_value and for process_properties.
C9_NormalizerIdempotent ==
    nv_pc = "twice" => nv_twice = nv_once

\* a list of an identifier and a timestamp, normalized twice
C9_Witness ==
    /\ nv_pc = "twice"
    /\ nv_fn = "process_single_value"
    /\ nv_in = BList(<<Uuid1, Datetime1>>)
    /\ nv_once # nv_in

\* C10: when the search returns, the answer is 200 with one result per row,
\* in the order of the rows; no rows give an empty sequence.
C10_OneResultPerRowInOrder ==
    (pc = "done" /\ SearchCalled /\ backend_raised = NoRaise)
    => /\ response.status = 200
       /\ response.body.t = "results"
       /\ Len(response.body.results) = Len(objects)
       /\ \A i \in 1..Len(objects) :
             /\ response.body.results[i].uuid = JStr(UuidStr(objects[i].uuid))
             /\ response.body.results[i].distance = RowDistance(objects[i])

\* two rows of different identifiers answered
C10_Witness ==
    /\ Answered200
    /\ Len(objects) = 2
    /\ objects[1].uuid # objects[2].uuid
    /\ Len(response.body.results) = 2

====
